---- MODULE Spec2Model ----
(***************************************************************************)
(* Model of the intrusion alarm controller of alarm/alarm.py: class Alarm, *)
(* its polling loop run_alarm_infinite and the handlers the loop calls in  *)
(* a fixed order each cycle.  Time is counted in ticks of 0.1 s.           *)
(***************************************************************************)
EXTENDS Integers, FiniteSets, Sequences, TLC

\* ---------------------------------------------------------------- bounds
\* wall-clock reading (ticks) of time.time() when the loop starts
StartTime == 20
\* number of loop cycles explored
MaxLoops == 6
\* cycles of a run of SpecIdle
IdleCycles == 10004
\* a long pause of the loop between two cycles (ticks), 60 s
Stall == 600
\* number of outlets (children) of the Kasa power strip
NumOutlets == 3

\* ------------------------------------------------------ program constants
\* seconds
ENTRYEXITDELAY == 30
FASTBLINK == 1
SLOWBLINK == 6 * FASTBLINK
\* minutes
MAXALARMTIME == 2
\* time.sleep(LOOPDELAY): 0.3 s, in ticks of 0.1 s
LOOPDELAY == 3
LOUDENABLE == TRUE
\* seconds, local constant of _check_buttons
BUTTONDELAY == 1

\* seconds to ticks
Sec(s) == 10 * s

\* class States(Enum)
OFF == "Off"
ON == "On"
STARTING == "Starting"
STARTERROR == "StartError"
TRIGDELAY == "TrigDelay"
TRIGGERED == "Triggered"
SILENCED == "Silenced"
States == {OFF, ON, STARTING, STARTERROR, TRIGDELAY, TRIGGERED, SILENCED}

\* StateConsts with the horn weight 1 also given to StartError
StateConstsLoudStartError(s) ==
    CASE s = OFF        -> << 0,  0, 0>>
      [] s = STARTING   -> << 4,  4, 0>>
      [] s = STARTERROR -> <<16, 16, 1>>
      [] s = ON         -> << 1,  0, 0>>
      [] s = TRIGDELAY  -> <<16, 16, 0>>
      [] s = TRIGGERED  -> <<16, 16, 1>>
      [] s = SILENCED   -> <<16, 16, 0>>

\* Alarm.StateConsts: <<light, buzzer, horn>> weight of a state
StateConsts(s) ==
    CASE s = OFF        -> << 0,  0, 0>>
      [] s = STARTING   -> << 4,  4, 0>>
      [] s = STARTERROR -> <<16, 16, 0>>
      [] s = ON         -> << 1,  0, 0>>
      [] s = TRIGDELAY  -> <<16, 16, 0>>
      [] s = TRIGGERED  -> <<16, 16, 1>>
      [] s = SILENCED   -> <<16, 16, 0>>

\* elapsed wall-clock time between two reads of time.time() in the loop:
\* time.sleep(LOOPDELAY) lasts at least LOOPDELAY and the code sets no upper
\* limit (the process can be suspended, the wall clock can be stepped), so a
\* cycle follows the previous one after LOOPDELAY or after a long pause
Steps == {LOOPDELAY, Stall}

VARIABLES
    pc,              \* position of run_alarm_infinite inside the cycle
    clock,           \* the wall clock, time.time()
    LoopTime, LoopCount,
    InteriorState, BikeState, InteriorTime, BikeTime, AlarmTime,
    LastButtonTime,
    red_led, blue_led, buzzer, horn, bike_out1, bike_out2,
    RedButton, BlueButton,   \* last readings taken by _check_buttons
    pir_triggered,           \* this cycle's PIR level (not is_active)
    wire_fault,              \* this cycle's tamper loop comparison
    accepted,                \* channels whose press _check_buttons accepted
    disarmed,                \* channels that press switched Off
    tripTime,                \* per channel, the time the channel tripped
    toggleTime,              \* per channel, the time of its last toggle
    pirSeen,                 \* PIR read triggered since Interior was armed
    soloInterior,            \* the Interior channel of the run that reads the
                             \* same buttons and PIR and never a wire fault
    hornSince,               \* the time of the cycle that switched the horn
                             \* on, while it stays on
    soloBike,                \* the Bike channel of the run that reads the
                             \* same buttons and wires and never the PIR
    is_on,                   \* KasaPowerStrip: is_on of each child outlet
    kasaCall                 \* KasaPowerStrip: the last call, the commands
                             \* it sent to the outlets and what it returned

vars == <<pc, clock, LoopTime, LoopCount, InteriorState, BikeState,
          InteriorTime, BikeTime, AlarmTime, LastButtonTime,
          red_led, blue_led, buzzer, horn, bike_out1, bike_out2,
          RedButton, BlueButton, pir_triggered, wire_fault, accepted,
          tripTime, toggleTime, pirSeen, soloInterior, soloBike, hornSince,
          is_on, kasaCall, disarmed>>

stateVars == <<InteriorState, BikeState, InteriorTime, BikeTime, AlarmTime>>
outVars == <<red_led, blue_led, buzzer, horn>>
bikeOut == <<bike_out1, bike_out2>>
buttonVars == <<RedButton, BlueButton, LastButtonTime, accepted, toggleTime,
                disarmed>>
sensorVars == <<pir_triggered, wire_fault>>
ghostVars == <<tripTime, pirSeen>>
observerVars == <<soloInterior, soloBike, hornSince>>
kasaVars == <<is_on, kasaCall>>
timeVars == <<clock, LoopTime, LoopCount>>
alarmVars == <<pc, timeVars, stateVars, outVars, bikeOut, buttonVars,
               sensorVars, ghostVars, observerVars>>

Interior == "Interior"
Bike == "Bike"
AlarmTypes == {Interior, Bike}
\* no time recorded yet
None == 0 - 1

\* the outlets of the strip, numbered as enumerate(self.device.children)
Outlets == 0 .. (NumOutlets - 1)

\* no call of a KasaPowerStrip method yet
NoCall == [op |-> "none"]

\* Alarm class variables and __init__
AlarmInit ==
    /\ pc = "top"
    /\ clock = StartTime
    /\ LoopTime = 0
    /\ LoopCount = 0
    /\ InteriorState = OFF
    /\ BikeState = OFF
    /\ InteriorTime = 0
    /\ BikeTime = 0
    /\ AlarmTime = 0
    /\ LastButtonTime = 0
    /\ red_led = FALSE
    /\ blue_led = FALSE
    /\ buzzer = FALSE
    /\ horn = FALSE
    /\ bike_out1 = FALSE
    /\ bike_out2 = TRUE
    /\ RedButton = FALSE
    /\ BlueButton = FALSE
    /\ pir_triggered = FALSE
    /\ wire_fault = FALSE
    /\ accepted = {}
    /\ disarmed = {}
    /\ tripTime = [c \in AlarmTypes |-> None]
    /\ toggleTime = [c \in AlarmTypes |-> None]
    /\ pirSeen = FALSE
    /\ hornSince = None
    /\ soloInterior = [State |-> OFF, Time |-> 0, Alarm |-> 0]
    /\ soloBike = [State |-> OFF, Time |-> 0, Alarm |-> 0,
                   out1 |-> FALSE, out2 |-> TRUE]

\* the alarm program after construction; it has no power strip
Init ==
    /\ AlarmInit
    /\ is_on = [o \in Outlets |-> FALSE]
    /\ kasaCall = NoCall

\* Alarm._toggle
Toggle(device) == ~device

\* the entry time recorded on entering StartError as well
EntryTimeAlsoStartError(val, old) ==
    IF val \in {STARTING, STARTERROR} THEN LoopTime ELSE old

\* Alarm.set_state: the entry time a channel has after set_state(_, val)
EntryTime(val, old) == IF val = STARTING THEN LoopTime ELSE old

\* run_alarm_infinite: the size the loop counter must exceed to be reset
LoopCountLimit == 10000

\* the reset without the test of the counter's size (as in the rvalarm
\* predecessor of this loop)
NextLoopCountNoLimit(count, Inside, Bk) ==
    IF Inside = OFF /\ Bk = OFF THEN 1 ELSE count + 1

\* run_alarm_infinite: loop counter housekeeping
NextLoopCount(count, Inside, Bk) ==
    IF Inside = OFF /\ Bk = OFF /\ count > LoopCountLimit
    THEN 1 ELSE count + 1

\* run_alarm_infinite: loop counter housekeeping and LoopTime = time.time()
CycleStart ==
    /\ pc = "top"
    /\ LoopCount' = NextLoopCount(LoopCount, InteriorState, BikeState)
    /\ LoopTime' = clock
    /\ pir_triggered' = FALSE
    /\ wire_fault' = FALSE
    /\ accepted' = {}
    /\ disarmed' = {}
    /\ pc' = "buttons"
    /\ UNCHANGED kasaVars
    /\ UNCHANGED <<clock, stateVars, outVars, bikeOut, RedButton, BlueButton,
                   LastButtonTime, toggleTime, ghostVars, observerVars>>

\* the start of a cycle, for MaxLoops cycles
LoopTop == LoopCount < MaxLoops /\ CycleStart

\* the debounce test left out
ButtonAcceptedNoDebounce(pressed, NowTime, last) == pressed

\* the debounce test of _check_buttons
ButtonAccepted(pressed, NowTime, last) ==
    pressed /\ (NowTime - last) > Sec(BUTTONDELAY)

\* a toggle that arms without the exit delay
ButtonToggleDirectOn(state) == IF state = OFF THEN ON ELSE OFF

\* the toggle of _check_buttons: Off -> Starting, anything else -> Off
ButtonToggle(state) == IF state = OFF THEN STARTING ELSE OFF

\* the time of the press recorded when the red press is not accepted
LastAfterRedExchanged(redAcc, NowTime, last) ==
    IF redAcc THEN last ELSE NowTime

\* the red branch not recording the time of the press
LastAfterRedUnrecorded(redAcc, NowTime, last) == last

\* _check_buttons: Alarm.LastButtonTime when the blue button is tested, the
\* red branch having set it to NowTime if it was taken
LastAfterRed(redAcc, NowTime, last) == IF redAcc THEN NowTime ELSE last

\* Alarm.set_state on a channel of a solo run (alarm: the call is one of
\* those followed by "Alarm.AlarmTime = Alarm.LoopTime")
SoloSet(ch, val, alarm) ==
    [ch EXCEPT !.State = val,
               !.Time = EntryTime(val, ch.Time),
               !.Alarm = IF alarm THEN LoopTime ELSE ch.Alarm]

\* Alarm._check_buttons
CheckButtons ==
    /\ pc = "buttons"
    /\ \E red \in BOOLEAN, blue \in BOOLEAN :
         LET NowTime == LoopTime
             redAcc == ButtonAccepted(red, NowTime, LastButtonTime)
             last1 == LastAfterRed(redAcc, NowTime, LastButtonTime)
             blueAcc == ButtonAccepted(blue, NowTime, last1)
             intNew == IF redAcc THEN ButtonToggle(InteriorState) ELSE InteriorState
             bikeNew == IF blueAcc THEN ButtonToggle(BikeState) ELSE BikeState
         IN /\ RedButton' = red
            /\ BlueButton' = blue
            /\ InteriorState' = intNew
            /\ InteriorTime' = IF redAcc THEN EntryTime(intNew, InteriorTime)
                               ELSE InteriorTime
            /\ BikeState' = bikeNew
            /\ BikeTime' = IF blueAcc THEN EntryTime(bikeNew, BikeTime)
                           ELSE BikeTime
            /\ LastButtonTime' = IF blueAcc THEN NowTime ELSE last1
            /\ accepted' = (IF redAcc THEN {Interior} ELSE {})
                            \cup (IF blueAcc THEN {Bike} ELSE {})
            /\ disarmed' = (IF redAcc /\ intNew = OFF THEN {Interior} ELSE {})
                            \cup (IF blueAcc /\ bikeNew = OFF THEN {Bike} ELSE {})
            /\ toggleTime' = [toggleTime EXCEPT
                  ![Interior] = IF intNew # InteriorState THEN NowTime ELSE @,
                  ![Bike] = IF bikeNew # BikeState THEN NowTime ELSE @]
            /\ pirSeen' = IF intNew = STARTING /\ InteriorState = OFF
                          THEN FALSE ELSE pirSeen
            /\ soloInterior' = IF redAcc THEN SoloSet(soloInterior,
                                   ButtonToggle(soloInterior.State), FALSE)
                               ELSE soloInterior
            /\ soloBike' = IF blueAcc THEN SoloSet(soloBike,
                               ButtonToggle(soloBike.State), FALSE)
                           ELSE soloBike
    /\ pc' = "bike"
    /\ UNCHANGED kasaVars
    /\ UNCHANGED <<timeVars, AlarmTime, outVars, bikeOut, sensorVars, tripTime,
                   hornSince>>

\* Alarm._bikewire_error_chk: the comparison of sensed and driven lines
WireError(wire1in, wire2in, wire1out, wire2out) ==
    ~((wire1in = wire1out) /\ (wire2in = wire2out))

\* a wire fault that alarms whatever the state
BikeFaultStateNoGrace(state) == TRIGGERED

\* a wire fault that starts an entry delay, as a PIR trigger does
BikeFaultStateWithDelay(state) ==
    IF state = STARTING THEN STARTERROR ELSE TRIGDELAY

\* Alarm._check_bike_wire: the state a bike wire fault leads to
BikeFaultState(state) == IF state = STARTING THEN STARTERROR ELSE TRIGGERED

\* the wire check called whatever the state
WireCheckedAlways(state) == TRUE

\* Alarm._check_bike_wire: is _bikewire_error_chk called (the left operand
\* of the "and")
WireChecked(state) == state \in {ON, STARTING}

\* Alarm._check_bike_wire (with _bikewire_error_chk)
CheckBikeWire ==
    /\ pc = "bike"
    /\ \E wire1in \in BOOLEAN, wire2in \in BOOLEAN :
         \* the lines are sampled (and the drive lines toggled) only when
         \* Bike is On or Starting: "and" short-circuits
         LET called == WireChecked(BikeState)
             err == WireError(wire1in, wire2in, bike_out1, bike_out2)
             hit == called /\ err
             new == IF hit THEN BikeFaultState(BikeState) ELSE BikeState
         IN /\ wire_fault' = err
            /\ bike_out1' = IF called THEN Toggle(bike_out1) ELSE bike_out1
            /\ bike_out2' = IF called THEN Toggle(bike_out2) ELSE bike_out2
            /\ BikeState' = new
            /\ BikeTime' = IF hit THEN EntryTime(new, BikeTime) ELSE BikeTime
            /\ AlarmTime' = IF hit /\ new # STARTERROR THEN LoopTime
                            ELSE AlarmTime
            /\ tripTime' = IF hit /\ new # STARTERROR
                           THEN [tripTime EXCEPT ![Bike] = LoopTime]
                           ELSE tripTime
            /\ LET sCalled == WireChecked(soloBike.State)
                   sHit == sCalled /\ WireError(wire1in, wire2in,
                                                soloBike.out1, soloBike.out2)
                   sNew == BikeFaultState(soloBike.State)
                   s1 == IF sHit THEN SoloSet(soloBike, sNew, sNew # STARTERROR)
                         ELSE soloBike
               IN soloBike' = IF sCalled
                              THEN [s1 EXCEPT !.out1 = Toggle(@),
                                              !.out2 = Toggle(@)]
                              ELSE s1
    /\ pc' = "interior"
    /\ UNCHANGED kasaVars
    /\ UNCHANGED <<timeVars, InteriorState, InteriorTime, outVars, buttonVars,
                   pir_triggered, pirSeen, soloInterior, hornSince>>

\* the second branch written as a plain else
InteriorMotionStateElse(state) ==
    IF state = STARTING THEN STARTERROR
    ELSE IF state # OFF THEN TRIGDELAY
    ELSE state

\* a PIR trigger that starts the entry delay while the channel is arming
InteriorMotionStateNoGrace(state) ==
    IF state \in {STARTING, ON} THEN TRIGDELAY ELSE state

\* the second branch taken in any state but Starting
InteriorMotionStateAnyState(state) ==
    IF state = STARTING THEN STARTERROR ELSE TRIGDELAY

\* Alarm._check_interior: the state a PIR trigger leads to
InteriorMotionState(state) ==
    IF state = STARTING THEN STARTERROR
    ELSE IF state = ON THEN TRIGDELAY
    ELSE state

\* Alarm._check_interior
CheckInterior ==
    /\ pc = "interior"
    /\ \E pir \in BOOLEAN :
         \* pir: motion detected, i.e. "not self.pir_sensor.is_active"
         LET new == IF pir THEN InteriorMotionState(InteriorState)
                    ELSE InteriorState
             hit == new # InteriorState
             trip == hit /\ new # STARTERROR
         IN /\ pir_triggered' = pir
            /\ InteriorState' = new
            /\ InteriorTime' = IF hit THEN EntryTime(new, InteriorTime)
                               ELSE InteriorTime
            /\ AlarmTime' = IF trip THEN LoopTime ELSE AlarmTime
            /\ tripTime' = IF trip
                           THEN [tripTime EXCEPT ![Interior] = LoopTime]
                           ELSE tripTime
            /\ pirSeen' = (pirSeen \/ (pir /\ InteriorState # OFF))
            /\ LET sNew == IF pir THEN InteriorMotionState(soloInterior.State)
                           ELSE soloInterior.State
               IN soloInterior' = IF sNew # soloInterior.State
                                  THEN SoloSet(soloInterior, sNew,
                                               sNew # STARTERROR)
                                  ELSE soloInterior
    /\ pc' = "timed"
    /\ UNCHANGED kasaVars
    /\ UNCHANGED <<timeVars, BikeState, BikeTime, outVars, bikeOut, buttonVars,
                   wire_fault, soloBike, hornSince>>

\* the arming delay measured from AlarmTime instead of InteriorTime
TimedInteriorFromAlarm(Inside, sinceStart, sinceAlarm) ==
    IF Inside \in {STARTING, STARTERROR} /\ sinceAlarm > Sec(ENTRYEXITDELAY)
    THEN ON
    ELSE IF Inside = TRIGDELAY /\ sinceAlarm > Sec(ENTRYEXITDELAY)
    THEN TRIGGERED
    ELSE IF Inside = TRIGGERED /\ sinceAlarm > Sec(60 * MAXALARMTIME)
    THEN SILENCED
    ELSE Inside

\* the entry delay compared with the maximum alarm time
TimedInteriorLongEntry(Inside, sinceStart, sinceAlarm) ==
    IF Inside \in {STARTING, STARTERROR} /\ sinceStart > Sec(ENTRYEXITDELAY)
    THEN ON
    ELSE IF Inside = TRIGDELAY /\ sinceAlarm > Sec(60 * MAXALARMTIME)
    THEN TRIGGERED
    ELSE IF Inside = TRIGGERED /\ sinceAlarm > Sec(60 * MAXALARMTIME)
    THEN SILENCED
    ELSE Inside

\* Alarm._update_timed_transitions, the if/elif chain on the Interior channel
TimedInterior(Inside, sinceStart, sinceAlarm) ==
    IF Inside \in {STARTING, STARTERROR} /\ sinceStart > Sec(ENTRYEXITDELAY)
    THEN ON
    ELSE IF Inside = TRIGDELAY /\ sinceAlarm > Sec(ENTRYEXITDELAY)
    THEN TRIGGERED
    ELSE IF Inside = TRIGGERED /\ sinceAlarm > Sec(60 * MAXALARMTIME)
    THEN SILENCED
    ELSE Inside

\* the On state set by a name that is not one of the seven States
TimedBikeUnknownState(Bk, sinceStart, sinceAlarm) ==
    IF Bk \in {STARTING, STARTERROR} /\ sinceStart > Sec(ENTRYEXITDELAY)
    THEN "Armed"
    ELSE IF Bk = TRIGGERED /\ sinceAlarm > Sec(60 * MAXALARMTIME)
    THEN SILENCED
    ELSE Bk

\* Alarm._update_timed_transitions, the if/elif chain on the Bike channel
TimedBike(Bk, sinceStart, sinceAlarm) ==
    IF Bk \in {STARTING, STARTERROR} /\ sinceStart > Sec(ENTRYEXITDELAY)
    THEN ON
    ELSE IF Bk = TRIGGERED /\ sinceAlarm > Sec(60 * MAXALARMTIME)
    THEN SILENCED
    ELSE Bk

\* Alarm._update_timed_transitions
UpdateTimedTransitions ==
    /\ pc = "timed"
    /\ InteriorState' = TimedInterior(InteriorState, LoopTime - InteriorTime,
                                      LoopTime - AlarmTime)
    /\ BikeState' = TimedBike(BikeState, LoopTime - BikeTime,
                              LoopTime - AlarmTime)
    /\ soloInterior' = [soloInterior EXCEPT !.State =
           TimedInterior(@, LoopTime - soloInterior.Time,
                         LoopTime - soloInterior.Alarm)]
    /\ soloBike' = [soloBike EXCEPT !.State =
           TimedBike(@, LoopTime - soloBike.Time, LoopTime - soloBike.Alarm)]
    /\ pc' = "display"
    /\ UNCHANGED kasaVars
    /\ UNCHANGED <<timeVars, InteriorTime, BikeTime, AlarmTime, outVars,
                   bikeOut, buttonVars, sensorVars, ghostVars, hornSince>>

\* the branch for weight 0 left out
SteadyLightNoOff(weight, led) == IF weight = 1 THEN TRUE ELSE led

\* _display: a light after the two steady branches (weight 0: off, 1: on)
SteadyLight(weight, led) ==
    IF weight = 0 THEN FALSE ELSE IF weight = 1 THEN TRUE ELSE led

\* the steady-on branch left out
SteadyLoudNoOn(val, dev) == IF val = 0 THEN FALSE ELSE dev

\* the branch for level 0 left out
SteadyLoudNoOff(val, dev) ==
    IF val = 1 THEN (IF LOUDENABLE THEN TRUE ELSE dev) ELSE dev

\* _display: buzzer or horn after the two steady branches
SteadyLoud(val, dev) ==
    IF val = 0 THEN FALSE
    ELSE IF val = 1 THEN (IF LOUDENABLE THEN TRUE ELSE dev)
    ELSE dev

\* the two thresholds exchanged
BlinkThresholdSwapped(count) ==
    IF count % SLOWBLINK = 0 THEN 8
    ELSE IF count % FASTBLINK = 0 THEN 2
    ELSE 0

\* _display: the threshold of the blink branch taken at this LoopCount
\* (0: neither branch is taken)
BlinkThreshold(count) ==
    IF count % SLOWBLINK = 0 THEN 2
    ELSE IF count % FASTBLINK = 0 THEN 8
    ELSE 0

\* the comparisons with the thresholds written with >=
BlinksAtThreshold(val, count) ==
    /\ BlinkThreshold(count) > 0
    /\ val >= BlinkThreshold(count)

\* _display: does the blink branch taken at this LoopCount act on a weight
Blinks(val, count) ==
    /\ BlinkThreshold(count) > 0
    /\ val > BlinkThreshold(count)

\* _display: a light in the blink section (red_led.on(), never off)
BlinkLight(weight, led, count) ==
    IF Blinks(weight, count) THEN TRUE ELSE led

\* the fast branch as a second "if": a level above 8 is toggled twice, back
\* to where it was, in the cycles of the slow branch
BlinkLoudTwoIfs(val, dev, count) ==
    IF ~LOUDENABLE THEN dev
    ELSE IF count % SLOWBLINK = 0
    THEN (IF val > 8 THEN Toggle(Toggle(dev))
          ELSE IF val > 2 THEN Toggle(dev) ELSE dev)
    ELSE (IF val > 8 THEN Toggle(dev) ELSE dev)

\* _display: buzzer or horn in the blink section
BlinkLoud(val, dev, count) ==
    IF Blinks(val, count) /\ LOUDENABLE THEN Toggle(dev) ELSE dev

\* _display: the guard of the blink section
SomeoneToggles(BuzzerVal, AlarmVal, intLight, bkLight) ==
    BuzzerVal > 1 \/ AlarmVal > 1 \/ intLight > 1 \/ bkLight > 1

BuzzerVal == StateConsts(InteriorState)[2] + StateConsts(BikeState)[2]
AlarmVal == StateConsts(InteriorState)[3] + StateConsts(BikeState)[3]

\* Alarm._display
Display ==
    /\ pc = "display"
    /\ LET IntState == StateConsts(InteriorState)
           BkState == StateConsts(BikeState)
           red1 == SteadyLight(IntState[1], red_led)
           blue1 == SteadyLight(BkState[1], blue_led)
           buzzer1 == SteadyLoud(BuzzerVal, buzzer)
           horn1 == SteadyLoud(AlarmVal, horn)
           tog == SomeoneToggles(BuzzerVal, AlarmVal, IntState[1], BkState[1])
       IN /\ red_led' = IF tog THEN BlinkLight(IntState[1], red1, LoopCount)
                        ELSE red1
          /\ blue_led' = IF tog THEN BlinkLight(BkState[1], blue1, LoopCount)
                         ELSE blue1
          /\ buzzer' = IF tog THEN BlinkLoud(BuzzerVal, buzzer1, LoopCount)
                       ELSE buzzer1
          /\ horn' = IF tog THEN BlinkLoud(AlarmVal, horn1, LoopCount)
                     ELSE horn1
    /\ hornSince' = IF ~horn' THEN None
                    ELSE IF horn THEN hornSince ELSE LoopTime
    /\ pc' = "sleep"
    /\ UNCHANGED kasaVars
    /\ UNCHANGED <<timeVars, stateVars, bikeOut, buttonVars, sensorVars,
                   ghostVars, soloInterior, soloBike>>

\* run_alarm_infinite: time.sleep(LOOPDELAY)
Sleep ==
    /\ pc = "sleep"
    /\ \E d \in Steps : clock' = clock + d
    /\ pc' = "top"
    /\ UNCHANGED kasaVars
    /\ UNCHANGED <<LoopTime, LoopCount, stateVars, outVars, bikeOut,
                   buttonVars, sensorVars, ghostVars, observerVars>>

Next ==
    \/ LoopTop
    \/ CheckButtons
    \/ CheckBikeWire
    \/ CheckInterior
    \/ UpdateTimedTransitions
    \/ Display
    \/ Sleep

Spec == Init /\ [][Next]_vars

\* the start of a cycle, for IdleCycles cycles
IdleLoopTop == clock < StartTime + LOOPDELAY * IdleCycles /\ CycleStart

\* _check_buttons when nobody presses a button before the loop counter has
\* passed LoopCountLimit
IdleCheckButtons ==
    CheckButtons /\ (LoopCount <= LoopCountLimit => ~RedButton' /\ ~BlueButton')

\* time.sleep(LOOPDELAY) returning after LOOPDELAY
IdleSleep == Sleep /\ clock' = clock + LOOPDELAY

\* the loop over a long idle period: cycles LOOPDELAY apart and no button
\* pressed for the first LoopCountLimit cycles
NextIdle ==
    \/ IdleLoopTop
    \/ IdleCheckButtons
    \/ CheckBikeWire
    \/ CheckInterior
    \/ UpdateTimedTransitions
    \/ Display
    \/ IdleSleep

SpecIdle == Init /\ [][NextIdle]_vars

\* ------------------------------------------------- the Kasa power strip
\* outlet ids a caller passes: the outlets, one below and one above
OutletIds == (0 - 1) .. NumOutlets

\* str(e) of the exception an outlet command raised
ErrorText == "error"

\* the command sent whatever the outlet's state
ToggleCommandAlwaysOn(on) == "turn_on"

\* _async_toggle_outlet: the command chosen from outlet.is_on
ToggleCommand(on) == IF on THEN "turn_off" ELSE "turn_on"

\* outlet.turn_on() / outlet.turn_off(): the outlet's state once the command
\* has been carried out
Commanded(cmd) == (cmd = "turn_on")

\* KasaPowerStrip.toggle_outlet / _async_toggle_outlet; raises: the command
\* sent to the outlet raises an exception
ToggleOutlet ==
    /\ \E outlet_id \in OutletIds, raises \in BOOLEAN :
         IF ~(0 <= outlet_id /\ outlet_id < NumOutlets)
         THEN /\ kasaCall' = [op |-> "toggle_outlet", outlet_id |-> outlet_id,
                              before |-> is_on, commands |-> <<>>,
                              returned |-> "ValueError"]
              /\ is_on' = is_on
         ELSE LET cmd == ToggleCommand(is_on[outlet_id])
              IN /\ kasaCall' = [op |-> "toggle_outlet",
                                 outlet_id |-> outlet_id,
                                 before |-> is_on,
                                 commands |-> <<[cmd |-> cmd,
                                                 outlet |-> outlet_id]>>,
                                 returned |-> IF raises THEN "Exception"
                                              ELSE "True"]
                 /\ is_on' = IF raises THEN is_on
                             ELSE [is_on EXCEPT ![outlet_id] = Commanded(cmd)]
    /\ UNCHANGED alarmVars

\* a failure that leaves no entry in the results
TurnOnOneUnreported(i, raises, acc) ==
    IF ~raises[i]
    THEN [is_on |-> [acc.is_on EXCEPT ![i] = Commanded("turn_on")],
          commands |-> Append(acc.commands, [cmd |-> "turn_on", outlet |-> i]),
          results |-> Append(acc.results, [outlet_id |-> i, success |-> TRUE,
                                           error |-> "None"])]
    ELSE [acc EXCEPT !.commands = Append(@, [cmd |-> "turn_on", outlet |-> i])]

\* _async_turn_on_all_outlets: the body of the loop for outlet i
TurnOnOne(i, raises, acc) ==
    IF ~raises[i]
    THEN [is_on |-> [acc.is_on EXCEPT ![i] = Commanded("turn_on")],
          commands |-> Append(acc.commands, [cmd |-> "turn_on", outlet |-> i]),
          results |-> Append(acc.results, [outlet_id |-> i, success |-> TRUE,
                                           error |-> "None"])]
    ELSE [is_on |-> acc.is_on,
          commands |-> Append(acc.commands, [cmd |-> "turn_on", outlet |-> i]),
          results |-> Append(acc.results, [outlet_id |-> i, success |-> FALSE,
                                           error |-> ErrorText])]

RECURSIVE TurnOnFrom(_, _, _)
\* _async_turn_on_all_outlets: the loop over enumerate(self.device.children)
TurnOnFrom(i, raises, acc) ==
    IF i = NumOutlets THEN acc
    ELSE TurnOnFrom(i + 1, raises, TurnOnOne(i, raises, acc))

\* KasaPowerStrip.turn_on_all_outlets / _async_turn_on_all_outlets; raises:
\* the outlets whose turn_on() raises an exception
TurnOnAllOutlets ==
    /\ \E raises \in [Outlets -> BOOLEAN] :
         LET end == TurnOnFrom(0, raises, [is_on |-> is_on, commands |-> <<>>,
                                           results |-> <<>>])
         IN /\ kasaCall' = [op |-> "turn_on_all_outlets", before |-> is_on,
                            raises |-> raises, commands |-> end.commands,
                            returned |-> end.results]
            /\ is_on' = end.is_on
    /\ UNCHANGED alarmVars

\* the strip as the controller finds it: outlets on or off
KasaInit ==
    /\ AlarmInit
    /\ is_on \in [Outlets -> BOOLEAN]
    /\ kasaCall = NoCall

KasaNext ==
    \/ ToggleOutlet
    \/ TurnOnAllOutlets

KasaSpec == KasaInit /\ [][KasaNext]_vars

\* ------------------------------------------------------------ properties
State(c) == IF c = Interior THEN InteriorState ELSE BikeState
StartTimeOf(c) == IF c = Interior THEN InteriorTime ELSE BikeTime

\* channel c was armed (Off -> Starting) by this cycle's _check_buttons
ArmedNow(c) == c \in accepted /\ StartTimeOf(c) = LoopTime

\* C1: an accepted press on a channel that is Off sets it to Starting with
\* its arming time LoopTime, and for the rest of that cycle the channel is
\* Starting or StartError, never On, TrigDelay, Triggered or Silenced.
C1_Arming ==
    [][\A c \in AlarmTypes :
         /\ (pc = "buttons" /\ State(c) = OFF /\ c \in accepted')
              => (State(c)' = STARTING /\ StartTimeOf(c)' = LoopTime)
         /\ ArmedNow(c)' => State(c)' \in {STARTING, STARTERROR}]_vars

C1_Witness ==
    /\ pc = "sleep"
    /\ ArmedNow(Interior)
    /\ InteriorState = STARTING

\* C2: a sensor trigger seen while the channel is Starting moves it to
\* StartError and records no alarm trigger time; for the rest of the cycle
\* a channel in StartError does not go to TrigDelay or Triggered.
C2_GracePeriod ==
    [][/\ (pc = "bike" /\ BikeState = STARTING /\ wire_fault')
            => (BikeState' = STARTERROR /\ AlarmTime' = AlarmTime
                /\ tripTime' = tripTime)
       /\ (pc = "interior" /\ InteriorState = STARTING /\ pir_triggered')
            => (InteriorState' = STARTERROR /\ AlarmTime' = AlarmTime
                /\ tripTime' = tripTime)
       /\ \A c \in AlarmTypes :
            (pc \in {"bike", "interior", "timed", "display"}
             /\ State(c) = STARTERROR)
               => State(c)' \in {STARTERROR, ON}]_vars

C2_Witness ==
    /\ pc = "timed"
    /\ ArmedNow(Interior)
    /\ pir_triggered
    /\ InteriorState = STARTERROR
    /\ BikeState = STARTERROR
    /\ tripTime = [c \in AlarmTypes |-> None]
    /\ AlarmTime = 0

\* C3: at the end of a cycle a channel that is still Triggered tripped no
\* more than MAXALARMTIME*60 seconds ago, whatever the other channel did,
\* and a Silenced channel tripped longer ago than that.
C3_AutoSilence ==
    pc = "sleep" =>
      \A c \in AlarmTypes :
        /\ State(c) = TRIGGERED
             => LoopTime - tripTime[c] <= Sec(60 * MAXALARMTIME)
        /\ State(c) = SILENCED
             => LoopTime - tripTime[c] > Sec(60 * MAXALARMTIME)

\* C4: two toggles of the same channel by its button are more than
\* BUTTONDELAY apart: of two pressed readings within one second at most
\* one toggles the channel.
C4_Debounce ==
    [][\A c \in AlarmTypes :
         (pc = "buttons" /\ State(c)' # State(c))
           => \/ toggleTime[c] = None
              \/ LoopTime - toggleTime[c] > Sec(BUTTONDELAY)]_vars

C4_Witness ==
    /\ pc = "bike"
    /\ RedButton
    /\ toggleTime[Interior] # None
    /\ LoopTime - toggleTime[Interior] \in 1..Sec(BUTTONDELAY)
    /\ Interior \notin accepted

\* C5: what _display does to the buzzer depends on the sum of the two
\* buzzer weights only: sum 0 switches it off, a sum in 3..8 toggles it in
\* the cycles where LoopCount is a multiple of SLOWBLINK, a sum above 8
\* toggles it exactly once in every cycle; no other sum is reachable.
C5_MixerAdditivity ==
    [][pc = "display" =>
         /\ BuzzerVal = 0 \/ BuzzerVal > 2
         /\ BuzzerVal = 0 => buzzer' = FALSE
         /\ (2 < BuzzerVal /\ BuzzerVal <= 8)
              => buzzer' = IF LoopCount % SLOWBLINK = 0 THEN ~buzzer
                           ELSE buzzer
         /\ BuzzerVal > 8 => buzzer' = ~buzzer]_vars

C5_Witness ==
    /\ pc = "sleep"
    /\ InteriorState = TRIGGERED
    /\ BikeState = TRIGGERED
    /\ BuzzerVal = 32

\* C6: while both channels are Triggered, _display toggles the buzzer and
\* the horn once in every cycle.
C6_BothTriggeredBlink ==
    [][(pc = "display" /\ InteriorState = TRIGGERED /\ BikeState = TRIGGERED)
         => (buzzer' = ~buzzer /\ horn' = ~horn)]_vars

\* one channel in StartError, the other Off or On
StartErrorAlone ==
    \/ InteriorState = STARTERROR /\ BikeState \in {OFF, ON}
    \/ BikeState = STARTERROR /\ InteriorState \in {OFF, ON}

\* C7 as stated: a cycle that ends with one channel in StartError and the
\* other Off or On ends with the buzzer and the horn off.
C7_StartErrorSilent ==
    (pc = "sleep" /\ StartErrorAlone) => (~buzzer /\ ~horn)

\* C7 amended: in such a cycle _display switches the horn off and toggles
\* the buzzer once (fast blink), so only the horn is silent.
C7_StartErrorNoHorn ==
    [][(pc = "display" /\ StartErrorAlone)
         => (horn' = FALSE /\ buzzer' = ~buzzer)]_vars

C7_Witness ==
    /\ pc = "sleep"
    /\ InteriorState = STARTERROR
    /\ BikeState = ON
    /\ buzzer
    /\ ~horn

\* C8 as stated: a channel leaves StartError only by its own accepted
\* button press, and then goes to Off.
C8_StartErrorOnlyOperator ==
    [][\A c \in AlarmTypes :
         (State(c) = STARTERROR /\ State(c)' # STARTERROR)
           => (pc = "buttons" /\ c \in accepted' /\ State(c)' = OFF)]_vars

\* C8 amended: a channel leaves StartError only by its own accepted button
\* press (to Off) or, in _update_timed_transitions, once more than
\* ENTRYEXITDELAY has passed since it was armed (to On); no sensor reading
\* moves it.
C8_StartErrorExits ==
    [][\A c \in AlarmTypes :
         (State(c) = STARTERROR /\ State(c)' # STARTERROR)
           => \/ pc = "buttons" /\ c \in accepted' /\ State(c)' = OFF
              \/ /\ pc = "timed"
                 /\ LoopTime - StartTimeOf(c) > Sec(ENTRYEXITDELAY)
                 /\ State(c)' = ON]_vars

C8_Witness ==
    /\ pc = "display"
    /\ InteriorState = ON
    /\ pirSeen
    /\ LastButtonTime = InteriorTime
    /\ toggleTime[Interior] = InteriorTime

\* Interior was armed, and since then no press was accepted and the PIR
\* never read triggered; Bike is Off
Scenario1 ==
    /\ InteriorState # OFF
    /\ LastButtonTime = InteriorTime
    /\ toggleTime[Interior] = InteriorTime
    /\ ~pirSeen
    /\ BikeState = OFF

\* C9: in scenario 1 a cycle ends with Interior Starting while no more than
\* ENTRYEXITDELAY has passed since arming, and with Interior On, the red
\* light on and buzzer and horn off once more has passed (so by 31 s).
C9_Scenario1 ==
    (pc = "sleep" /\ Scenario1) =>
      IF LoopTime - InteriorTime > Sec(ENTRYEXITDELAY)
      THEN InteriorState = ON /\ red_led /\ ~buzzer /\ ~horn
      ELSE InteriorState = STARTING

C9_Witness ==
    /\ pc = "sleep"
    /\ Scenario1
    /\ LoopTime - InteriorTime >= Sec(31)
    /\ InteriorState = ON
    /\ red_led

\* Interior tripped at AlarmTime, no press was accepted since, Bike is Off
Scenario2 ==
    /\ InteriorState \in {TRIGDELAY, TRIGGERED, SILENCED}
    /\ BikeState = OFF
    /\ LastButtonTime < AlarmTime

\* C10 as stated: while Interior is Triggered (Bike Off) the buzzer and the
\* horn are both toggled in every cycle.
C10_TriggeredBlinksBoth ==
    [][(pc = "display" /\ InteriorState = TRIGGERED /\ BikeState = OFF)
         => (buzzer' = ~buzzer /\ horn' = ~horn)]_vars

\* C10 amended: a PIR trigger while Interior is On gives TrigDelay with
\* AlarmTime = LoopTime; in scenario 2 a cycle ends in TrigDelay up to 30 s
\* after the trigger, in Triggered from there up to 120 s (so at 31 s), in
\* Silenced after that (so at 121 s); while Triggered the buzzer is toggled
\* every cycle and the horn is steadily on.
C10_Scenario2 ==
    [][/\ (pc = "interior" /\ InteriorState = ON /\ pir_triggered')
            => (InteriorState' = TRIGDELAY /\ AlarmTime' = LoopTime)
       /\ (pc = "display" /\ InteriorState = TRIGGERED /\ BikeState = OFF)
            => (buzzer' = ~buzzer /\ horn' = TRUE)
       /\ (pc' = "sleep" /\ Scenario2')
            => /\ tripTime'[Interior] = AlarmTime'
               /\ InteriorState' =
                    IF LoopTime' - AlarmTime' <= Sec(ENTRYEXITDELAY)
                    THEN TRIGDELAY
                    ELSE IF LoopTime' - AlarmTime' <= Sec(60 * MAXALARMTIME)
                    THEN TRIGGERED
                    ELSE SILENCED
               /\ horn' = (InteriorState' = TRIGGERED)]_vars

C10_Witness ==
    /\ pc = "sleep"
    /\ Scenario2
    /\ InteriorState = SILENCED
    /\ LoopTime - AlarmTime >= Sec(121)
    /\ ~horn
\* C11: channel independence. Two runs that read the same buttons and PIR and
\* differ only in the tamper-wire readings go through the same Interior
\* states in the same cycles, and two runs that differ only in the PIR
\* readings go through the same Bike states: so each channel is, in every
\* cycle, in the state it has in the run where the other sensor never trips
C11_ChannelIndependence ==
    /\ InteriorState = soloInterior.State
    /\ BikeState = soloBike.State

\* C12: buttons act on rising edges. A channel is toggled by its button only
\* in a cycle where the button reads pressed and read not pressed in the
\* previous cycle (RedButton, BlueButton hold the previous cycle's readings
\* until _check_buttons reads again), so a held button toggles once
C12_RisingEdge ==
    [][pc = "buttons" =>
         /\ (Interior \in accepted' => RedButton' /\ ~RedButton)
         /\ (Bike \in accepted' => BlueButton' /\ ~BlueButton)]_vars

\* C13: shared debounce clock. When _check_buttons accepts a press on one
\* button, no press on the other button was accepted in this cycle or in any
\* cycle 1 s or less before it; when both buttons read pressed in one cycle
\* with the debounce window elapsed, only Interior is toggled and Bike keeps
\* its state
C13_SharedDebounce ==
    [][pc = "buttons" =>
         /\ \A c \in accepted' : \A d \in AlarmTypes \ {c} :
               \/ toggleTime'[d] = None
               \/ LoopTime > toggleTime'[d] + Sec(BUTTONDELAY)
         /\ (/\ RedButton' /\ BlueButton'
             /\ LoopTime - LastButtonTime > Sec(BUTTONDELAY))
            => /\ accepted' = {Interior}
               /\ InteriorState' = ButtonToggle(InteriorState)
               /\ BikeState' = BikeState]_vars

\* both buttons read pressed, the window elapsed since an earlier blue press,
\* and only the red press was accepted
C13_Witness ==
    /\ pc = "bike"
    /\ RedButton /\ BlueButton
    /\ accepted = {Interior}
    /\ toggleTime[Bike] # None
    /\ LoopTime > toggleTime[Bike] + Sec(BUTTONDELAY)
    /\ BikeState = STARTING

BothOff == InteriorState = OFF /\ BikeState = OFF

C15_BoundedAlarm ==
    (pc = "sleep" /\ horn /\ LastButtonTime <= hornSince)
        => LoopTime - hornSince <= Sec(60 * MAXALARMTIME)

\* C16: both channels are Off at construction (before the first cycle), and
\* each channel's state is always one of the seven States, for which
\* StateConsts has a row of three weights
C16_SevenStates ==
    /\ LoopCount = 0 => BothOff
    /\ \A c \in AlarmTypes :
         /\ State(c) \in States
         /\ Len(StateConsts(State(c))) = 3

\* _display about to look up the rows of two states reached through the
\* sensors and the timers
C16_Witness ==
    /\ pc = "display"
    /\ InteriorState = SILENCED
    /\ BikeState = STARTERROR

\* the level the blink encoding gives a light of this weight in a cycle
EncodedLight(weight, led, count) ==
    IF weight = 0 THEN FALSE
    ELSE IF weight = 1 THEN TRUE
    ELSE IF weight = 4 THEN (IF count % SLOWBLINK = 0 THEN ~led ELSE led)
    ELSE ~led

\* C17: light blink encoding. _display drives each light from its own
\* channel's light weight: off for 0, steadily on for 1, toggled every
\* SLOWBLINK cycles for 4 and toggled every cycle for 16 (so the light of a
\* StartError channel alternates on and off from cycle to cycle)
C17_LightBlink ==
    [][pc = "display" =>
         /\ red_led' = EncodedLight(StateConsts(InteriorState)[1], red_led,
                                    LoopCount)
         /\ blue_led' = EncodedLight(StateConsts(BikeState)[1], blue_led,
                                     LoopCount)]_vars

\* C18: toggle_outlet on a valid outlet id sends exactly one command to that
\* outlet, turn_off when the outlet is on at the call and turn_on when it is
\* off, and when the call returns the outlet's state is the negation of its
\* state before the call
C18_ToggleOutlet ==
    (kasaCall.op = "toggle_outlet" /\ kasaCall.outlet_id \in Outlets) =>
        LET id == kasaCall.outlet_id
            was == kasaCall.before[id]
        IN /\ Len(kasaCall.commands) = 1
           /\ kasaCall.commands[1].outlet = id
           /\ was => kasaCall.commands[1].cmd = "turn_off"
           /\ ~was => kasaCall.commands[1].cmd = "turn_on"
           /\ kasaCall.returned = "True" => is_on[id] = ~was
           /\ \A o \in Outlets \ {id} : is_on[o] = kasaCall.before[o]

\* an outlet that was on has been toggled off
C18_Witness ==
    /\ kasaCall.op = "toggle_outlet"
    /\ kasaCall.outlet_id = 1
    /\ kasaCall.returned = "True"
    /\ kasaCall.before[1]
    /\ ~is_on[1]

\* C19: turn_on_all_outlets sends turn_on to every outlet once, in order,
\* also after a failure, and returns one result per outlet with outlet_id =
\* index, success true where turn_on succeeded, and success false with the
\* error text exactly for the outlets whose turn_on raised
C19_TurnOnAll ==
    kasaCall.op = "turn_on_all_outlets" =>
        /\ kasaCall.commands =
              [i \in 1 .. NumOutlets |-> [cmd |-> "turn_on", outlet |-> i - 1]]
        /\ Len(kasaCall.returned) = NumOutlets
        /\ \A o \in Outlets :
              LET r == kasaCall.returned[o + 1]
              IN /\ r.outlet_id = o
                 /\ r.success = ~kasaCall.raises[o]
                 /\ (r.error = ErrorText) = kasaCall.raises[o]
                 /\ r.success => (r.error = "None" /\ is_on[o])
                 /\ ~r.success => is_on[o] = kasaCall.before[o]

\* the first outlet failed and the outlets after it were switched on
C19_Witness ==
    /\ kasaCall.op = "turn_on_all_outlets"
    /\ kasaCall.raises[0]
    /\ \A o \in Outlets \ {0} :
          ~kasaCall.raises[o] /\ ~kasaCall.before[o] /\ is_on[o]
    /\ ~is_on[0]

\* C20: blink schedule of the shared buzzer. With the combined buzzer level in
\* the slow band (2 < level <= 8) the buzzer changes level in the cycles
\* where LoopCount is a multiple of SLOWBLINK and in no other cycle; with the
\* level above 8 it changes level in every cycle, multiples of SLOWBLINK
\* included
C20_BlinkSchedule ==
    [][(pc = "display" /\ BuzzerVal > 2) =>
         ((buzzer' # buzzer) <=>
            (BuzzerVal > 8 \/ LoopCount % SLOWBLINK = 0))]_vars

\* the end of a cycle whose LoopCount is a multiple of SLOWBLINK, with the
\* level in the slow band and the buzzer toggled on
C20_Witness ==
    /\ pc = "sleep"
    /\ LoopCount = SLOWBLINK
    /\ InteriorState = STARTING
    /\ BikeState = ON
    /\ BuzzerVal = 4
    /\ buzzer

\* C21: Bike has no entry delay. When Bike is On and _check_bike_wire sees a
\* wire fault, Bike is Triggered at the end of that call and AlarmTime is
\* LoopTime; Bike is never in TrigDelay
C21_BikeNoEntryDelay ==
    /\ [][(pc = "bike" /\ BikeState = ON /\ wire_fault')
            => (BikeState' = TRIGGERED /\ AlarmTime' = LoopTime)]_vars
    /\ [](BikeState # TRIGDELAY)

\* _check_bike_wire has just tripped Bike
C21_Witness ==
    /\ pc = "interior"
    /\ wire_fault
    /\ BikeState = TRIGGERED
    /\ tripTime[Bike] = LoopTime
    /\ AlarmTime = LoopTime

\* C22: disarm wins within a cycle. In a cycle in which _check_buttons accepted
\* the press of a channel that was not Off, the channel is Off after each of
\* the handlers that follow (bike wire check, interior check, timed
\* transitions), whatever its sensor reads and whatever timer has expired,
\* and no trigger time is recorded for it in that cycle
C22_DisarmWins ==
    \A c \in disarmed :
        /\ State(c) = OFF
        /\ tripTime[c] # LoopTime

\* the end of a cycle that disarmed the Interior channel while the PIR
\* read motion and the wires read a fault
C22_Witness ==
    /\ pc = "sleep"
    /\ Interior \in disarmed
    /\ pir_triggered
    /\ wire_fault
    /\ InteriorState = OFF
    /\ LoopTime - InteriorTime > Sec(ENTRYEXITDELAY)

\* C23 as stated: grace-period boundary. With no PIR trigger since Interior
\* was armed, in every cycle whose elapsed time since arming is 30 s or more
\* Interior is On when _check_interior evaluates the PIR, and a trigger then
\* leads to TrigDelay
C23_GraceBoundary ==
    [][(/\ pc = "interior"
        /\ InteriorState \in {STARTING, ON}
        /\ ~pirSeen
        /\ LoopTime - InteriorTime >= Sec(ENTRYEXITDELAY))
       => /\ InteriorState = ON
          /\ pir_triggered' => InteriorState' = TRIGDELAY]_vars

\* C23 amended: Interior goes from Starting to On in _update_timed_transitions,
\* after its sensor was evaluated, in the first cycle whose elapsed time
\* since arming exceeds 30 s: a cycle starts with Interior still Starting
\* only after a cycle with elapsed time of 30 s or less, a trigger read while
\* Interior is Starting leads to StartError, and a cycle with Interior armed
\* and an elapsed time above 30 s ends with Interior not Starting
C23_GraceBoundaryOneCycleLate ==
    [][/\ (pc = "top" /\ LoopCount > 0 /\ InteriorState = STARTING)
           => LoopTime - InteriorTime <= Sec(ENTRYEXITDELAY)
       /\ (pc = "interior" /\ InteriorState = STARTING /\ pir_triggered')
           => InteriorState' = STARTERROR
       /\ (/\ pc = "timed"
           /\ InteriorState \in {STARTING, STARTERROR}
           /\ LoopTime - InteriorTime > Sec(ENTRYEXITDELAY))
           => InteriorState' = ON]_vars

\* a trigger read more than 30 s after arming has led to StartError, just
\* before _update_timed_transitions
C23_Witness ==
    /\ pc = "timed"
    /\ InteriorState = STARTERROR
    /\ pir_triggered
    /\ LoopCount = 2
    /\ toggleTime[Interior] = InteriorTime
    /\ LoopTime - InteriorTime > Sec(ENTRYEXITDELAY)

\* C24: the arming delay is measured from arming. In _update_timed_transitions
\* a channel in Starting or StartError becomes On if LoopTime minus the time
\* of the press that armed it exceeds ENTRYEXITDELAY and keeps its state
\* otherwise, so it becomes On in the first such cycle; entering StartError
\* leaves the recorded entry time as it is
C24_ArmingDelay ==
    [][\A c \in AlarmTypes :
         /\ (pc = "timed" /\ State(c) \in {STARTING, STARTERROR})
              => State(c)' = IF LoopTime - toggleTime[c] > Sec(ENTRYEXITDELAY)
                             THEN ON ELSE State(c)
         /\ (State(c) = STARTING /\ State(c)' = STARTERROR)
              => StartTimeOf(c)' = StartTimeOf(c)]_vars

\* the second cycle, 60 s after the press that armed Bike: the wire check
\* read a fault with Bike not yet On, and _update_timed_transitions has
\* set Bike On from StartError
C24_Witness ==
    /\ pc = "display"
    /\ LoopCount = 2
    /\ wire_fault
    /\ BikeState = ON
    /\ LoopTime - toggleTime[Bike] > Sec(ENTRYEXITDELAY)

SomeTriggered == InteriorState = TRIGGERED \/ BikeState = TRIGGERED

\* C25: the horn sounds whenever an alarm is tripped. At the end of every
\* cycle (after _display) in which at least one channel is Triggered the horn
\* is on, the cycles with both channels Triggered included
C25_HornWhenTriggered ==
    (pc = "sleep" /\ SomeTriggered) => horn

\* the end of a cycle with both channels Triggered: combined horn weight 2
C25_Witness ==
    /\ pc = "sleep"
    /\ InteriorState = TRIGGERED
    /\ BikeState = TRIGGERED
    /\ AlarmVal = 2
    /\ horn

\* C26: the horn is silent unless an alarm is tripped. At the end of every
\* cycle (after _display) in which neither channel is Triggered the horn is
\* off
C26_HornOnlyWhenTriggered ==
    (pc = "sleep" /\ ~SomeTriggered) => ~horn

\* the end of the cycle in which _update_timed_transitions silenced a
\* channel: the horn, on since an earlier cycle, has been switched off
C26_Witness ==
    /\ pc = "sleep"
    /\ BikeState = SILENCED
    /\ InteriorState # TRIGGERED
    /\ tripTime[Bike] # None
    /\ LoopTime - tripTime[Bike] > Sec(60 * MAXALARMTIME)
    /\ ~horn

\* C27: quiescent when disarmed. Right after construction, and at the end of
\* every cycle in which both channels are Off, the red light, the blue light,
\* the buzzer and the horn are off
C27_Quiescent ==
    ((pc = "sleep" \/ LoopCount = 0) /\ BothOff)
        => (~red_led /\ ~blue_led /\ ~buzzer /\ ~horn)

\* the end of the fourth cycle, in which the blue button disarmed a Bike
\* channel that was armed in cycle 1 and tripped in cycle 3 (light on, buzzer
\* blinking, horn on)
C27_Witness ==
    /\ pc = "sleep"
    /\ LoopCount = 4
    /\ BothOff
    /\ Bike \in disarmed
    /\ tripTime[Bike] # None
    /\ ~red_led /\ ~blue_led /\ ~buzzer /\ ~horn

\* C28: timers are never overdue at the end of a cycle. After
\* _update_timed_transitions a channel in Starting or StartError has
\* LoopTime minus its arming time <= ENTRYEXITDELAY, and Interior in TrigDelay
\* has LoopTime - AlarmTime <= ENTRYEXITDELAY
C28_TimersNotOverdue ==
    pc \in {"display", "sleep"} =>
        /\ \A c \in AlarmTypes :
              State(c) \in {STARTING, STARTERROR}
                => LoopTime - StartTimeOf(c) <= Sec(ENTRYEXITDELAY)
        /\ InteriorState = TRIGDELAY
              => LoopTime - AlarmTime <= Sec(ENTRYEXITDELAY)

\* after _update_timed_transitions: Interior in TrigDelay since an earlier
\* cycle and Bike in StartError, both with their delay still running
C28_Witness ==
    /\ pc = "display"
    /\ InteriorState = TRIGDELAY
    /\ LoopTime - AlarmTime > 0
    /\ BikeState = STARTERROR
    /\ LoopTime - BikeTime > 0

\* C29: tamper-loop drive lines. bike_out1 and bike_out2 always hold opposite
\* levels; _check_bike_wire toggles both when it finds Bike in On or
\* Starting, and no other step of a cycle and no call that finds Bike in
\* another state changes either of them
C29_DriveLines ==
    /\ [](bike_out1 # bike_out2)
    /\ [][IF pc = "bike" /\ BikeState \in {ON, STARTING}
          THEN bike_out1' = ~bike_out1 /\ bike_out2' = ~bike_out2
          ELSE bike_out1' = bike_out1 /\ bike_out2' = bike_out2]_vars

\* after the wire check of the second cycle in a row that found Bike armed:
\* the lines are back at their initial levels
C29_Witness ==
    /\ pc = "interior"
    /\ LoopCount = 2
    /\ BikeState \in {STARTING, STARTERROR}
    /\ toggleTime[Bike] # None
    /\ toggleTime[Bike] < LoopTime
    /\ ~bike_out1 /\ bike_out2

\* C30: the red button has priority over the blue one. In a cycle in which
\* the red button reads pressed, _check_buttons does not accept a blue press
\* and does not toggle the Bike channel, whether the red press is accepted or
\* falls into the debounce window
C30_RedPriority ==
    (RedButton /\ pc # "top") =>
        /\ Bike \notin accepted
        /\ Bike \notin disarmed
        /\ toggleTime[Bike] # LoopTime
        /\ BikeState = STARTING => BikeTime # LoopTime

\* both buttons read pressed inside the debounce window of an earlier blue
\* press: neither press is accepted
C30_Witness ==
    /\ pc = "bike"
    /\ RedButton /\ BlueButton
    /\ accepted = {}
    /\ toggleTime[Bike] # None
    /\ LoopTime - toggleTime[Bike] <= Sec(BUTTONDELAY)
    /\ BikeState = STARTING

====
